---- MODULE Spec2Model ----
(***************************************************************************)
(* Model of certificate_generator.py: one run of the script is             *)
(*   generate_certificates()  ->  authenticate_gmail()  ->  send loop      *)
(* over a roster file (participants.csv) and an output folder              *)
(* (certificates/).  The folder outlives the process, so the model lets    *)
(* the script be started again on the same roster.                         *)
(***************************************************************************)
EXTENDS Integers, Sequences, FiniteSets, TLC

(* ------------------------------ bounds -------------------------------- *)
MaxRows == 3   \* longest roster explored
MaxRuns == 2   \* how many times the script is started

(* ------------------------- configuration ------------------------------ *)
CERTIFICATES_FOLDER == "certificates/"
EMAIL_SENDER == "your_email@gmail.com"
SUBJECT == "Congratulations! Your Certificate"

(* --------------------------- input domains ---------------------------- *)
Names  == {"Asha", "Rao"}
Srns   == {"PES1001", "PES1002"}
Emails == {"asha@x.com", "rao@x.com"}

RequiredColumns == {"Name", "Srn", "Email id"}

ColumnValues(c) == IF c = "Name" THEN Names ELSE IF c = "Srn" THEN Srns ELSE Emails

\* headers the roster file may carry: all columns, or one of them lacking
Headers == {RequiredColumns} \cup {RequiredColumns \ {c} : c \in RequiredColumns}

\* a row of the data frame is a function from the header's columns to cells
RowsOver(cols) == {r \in [cols -> Names \cup Srns \cup Emails] :
                      \A c \in cols : r[c] \in ColumnValues(c)}

SeqsUpTo(S, n) == UNION {[1..k -> S] : k \in 0..n}

VARIABLES
  csvState,   \* participants.csv: "missing", "blank" (no header line), "table"
  csvCols,    \* header of the file
  csvRows,    \* data rows of the file
  dirExists,  \* does certificates/ exist
  fs,         \* files in certificates/: path -> texts drawn on the image
  pc,         \* position of the script
  df,         \* the data frame of the loop being run
  idx,        \* iteration count of the loop being run (1-based)
  service,    \* gmail_service: "none" or "gmail"
  authCalls,  \* calls of authenticate_gmail in this run
  created,    \* rows for which "Certificate created for" was printed
  invoked,    \* rows for which send_certificate was called, in call order
  inFlight,   \* rows whose send_certificate call has not returned
  delivered,  \* messages accepted by the provider ("Email sent to")
  missing,    \* rows for which "Certificate not found" was printed
  error,      \* the uncaught exception that ended the run, or "none"
  failedAt,   \* row at which send_certificate raised, or 0
  run,        \* number of the current run
  passFs      \* output folder as each completed render pass left it

vars == <<csvState, csvCols, csvRows, dirExists, fs, pc, df, idx, service,
          authCalls, created, invoked, inFlight, delivered, missing, error,
          failedAt, run, passFs>>

roster  == <<csvState, csvCols, csvRows>>
sendLog == <<invoked, inFlight, delivered, missing, failedAt>>

(* ----------------------------- helpers -------------------------------- *)
NoFiles == [p \in {} |-> <<>>]

\* line 62 / line 136: f"{CERTIFICATES_FOLDER}{name}.jpg"
CertPath(name) == CERTIFICATES_FOLDER \o name \o ".jpg"

\* line 61: f"{row['Name']} ({row['Srn']})"
NameText(row) == row["Name"] \o " (" \o row["Srn"] \o ")"

\* line 113: os.path.basename(certificate_path)
Basename(name) == name \o ".jpg"

\* os.path.exists(path)
Exists(files, path) == path \in DOMAIN files

\* img.save(path): creates or replaces the file
WriteFile(files, path, content) ==
  [q \in DOMAIN files \cup {path} |-> IF q = path THEN content ELSE files[q]]

\* line 53: if not os.path.exists(CERTIFICATES_FOLDER)
NeedMakeDirs(exists) == ~ exists

\* lines 65-67 drawing on what is already stored at the output path
RenderedOnto(files, path, text) ==
  IF path \in DOMAIN files THEN Append(files[path], text) ELSE <<text>>

\* lines 65-67: a fresh copy of the template with one text drawn on it
Rendered(files, path, text) == <<text>>

\* pd.read_csv that also rejects a table without data rows
ReadCsvErrorStrict(state, rows) ==
  IF state = "missing" THEN "FileNotFoundError"
  ELSE IF state = "blank" \/ rows = <<>> THEN "EmptyDataError"
  ELSE "none"

\* lines 50, 131: pd.read_csv(CSV_FILE)
ReadCsvError(state, rows) ==
  IF state = "missing" THEN "FileNotFoundError"
  ELSE IF state = "blank" THEN "EmptyDataError"
  ELSE "none"

\* iterating the frame from its last row to its first
IterRowReversed(d, k) == Len(d) + 1 - k

\* lines 60, 133: df.iterrows() yields the rows in file order
IterRow(d, k) == k

\* an "if" that lets every row through
ShouldSendAlways(files, path) == TRUE

\* line 138: if os.path.exists(certificate_path)
ShouldSend(files, path) == Exists(files, path)

\* a failed authentication that is swallowed
AfterAuthSwallowed(ok) == "send_begin"

\* line 128: an exception of authenticate_gmail is not caught
AfterAuth(ok) == IF ok THEN "send_begin" ELSE "aborted"

\* lines 88-114: the composed message
ComposeMessage(email, name, files) ==
  [subject    |-> SUBJECT,
   from       |-> EMAIL_SENDER,
   to         |-> email,
   greeting   |-> "Dear " \o name \o ",",
   filename   |-> Basename(name),
   attachment |-> files[CertPath(name)]]

Terminated == pc \in {"done", "aborted"}

Abort(e) == /\ pc' = "aborted"
            /\ error' = e

(* ------------------------------ Init ---------------------------------- *)
Init ==
  /\ csvState \in {"missing", "blank", "table"}
  /\ csvCols \in Headers
  /\ csvRows \in SeqsUpTo(RowsOver(csvCols), MaxRows)
  /\ (csvState # "table" => csvCols = RequiredColumns /\ csvRows = <<>>)
  /\ dirExists \in BOOLEAN
  /\ fs = NoFiles
  /\ pc = "start"
  /\ df = <<>>
  /\ idx = 1
  /\ service = "none"
  /\ authCalls = 0
  /\ created = <<>>
  /\ invoked = <<>>
  /\ inFlight = {}
  /\ delivered = <<>>
  /\ missing = <<>>
  /\ error = "none"
  /\ failedAt = 0
  /\ run = 1
  /\ passFs = <<>>

(* ------------------- generate_certificates (44-71) -------------------- *)
\* lines 50-57: read the roster, make the folder, load the font
GenBegin ==
  /\ pc = "start"
  /\ IF ReadCsvError(csvState, csvRows) # "none"
     THEN /\ Abort(ReadCsvError(csvState, csvRows))
          /\ UNCHANGED <<df, dirExists>>
     ELSE /\ df' = csvRows
          /\ IF NeedMakeDirs(dirExists) /\ dirExists
             THEN \* os.makedirs on an existing folder raises
                  /\ Abort("FileExistsError")
                  /\ UNCHANGED dirExists
             ELSE /\ dirExists' = TRUE
                  /\ \E fontOk \in BOOLEAN :
                       IF fontOk THEN pc' = "gen_loop" /\ UNCHANGED error
                       ELSE Abort("FontLoadFailed")
  /\ idx' = 1
  /\ UNCHANGED <<roster, fs, service, authCalls, created, sendLog, run, passFs>>

\* lines 60-71: one iteration of the render loop
GenRow ==
  /\ pc = "gen_loop"
  /\ idx <= Len(df)
  /\ LET r   == IterRow(df, idx)
         row == df[r]
     IN IF ~ ({"Name", "Srn"} \subseteq DOMAIN row)
        THEN /\ Abort("KeyError")
             /\ UNCHANGED <<fs, created, idx>>
        ELSE \E templateOk \in BOOLEAN :
               IF templateOk
               THEN /\ fs' = WriteFile(fs, CertPath(row["Name"]),
                                Rendered(fs, CertPath(row["Name"]), NameText(row)))
                    /\ created' = Append(created, r)
                    /\ idx' = idx + 1
                    /\ UNCHANGED <<pc, error>>
               ELSE /\ Abort("TemplateLoadFailed")
                    /\ UNCHANGED <<fs, created, idx>>
  /\ UNCHANGED <<roster, dirExists, df, service, authCalls, sendLog, run, passFs>>

\* the render loop is exhausted: generate_certificates returns
GenEnd ==
  /\ pc = "gen_loop"
  /\ idx > Len(df)
  /\ pc' = "auth"
  /\ passFs' = Append(passFs, fs)
  /\ UNCHANGED <<roster, dirExists, fs, df, idx, service, authCalls, created,
                 sendLog, error, run>>

(* --------------------- authenticate_gmail (74-81) --------------------- *)
\* line 128: the blocking consent flow returns a service or raises
Authenticate ==
  /\ pc = "auth"
  /\ authCalls' = authCalls + 1
  /\ \E ok \in BOOLEAN :
       /\ pc' = AfterAuth(ok)
       /\ service' = IF ok THEN "gmail" ELSE service
       /\ error' = IF ok THEN error ELSE "AuthenticationFailed"
  /\ UNCHANGED <<roster, dirExists, fs, df, idx, created, sendLog, run, passFs>>

\* while the consent flow blocks, another process removes an artifact
EnvRemoveArtifact ==
  /\ pc = "auth"
  /\ \E p \in DOMAIN fs : fs' = [q \in DOMAIN fs \ {p} |-> fs[q]]
  /\ UNCHANGED <<roster, dirExists, pc, df, idx, service, authCalls, created,
                 sendLog, error, run, passFs>>

(* --------------------------- send loop -------------------------------- *)
\* line 131: the roster is read again
SendBegin ==
  /\ pc = "send_begin"
  /\ IF ReadCsvError(csvState, csvRows) # "none"
     THEN /\ Abort(ReadCsvError(csvState, csvRows))
          /\ UNCHANGED df
     ELSE /\ df' = csvRows
          /\ pc' = "send_loop"
          /\ UNCHANGED error
  /\ idx' = 1
  /\ UNCHANGED <<roster, dirExists, fs, service, authCalls, created, sendLog,
                 run, passFs>>

\* lines 133-141: one iteration, up to the call of send_certificate
SendRow ==
  /\ pc = "send_loop"
  /\ idx <= Len(df)
  /\ LET r   == IterRow(df, idx)
         row == df[r]
     IN IF ~ ({"Name", "Email id"} \subseteq DOMAIN row)
        THEN /\ Abort("KeyError")
             /\ UNCHANGED <<idx, sendLog>>
        ELSE IF ShouldSend(fs, CertPath(row["Name"]))
        THEN /\ invoked' = Append(invoked, r)
             /\ inFlight' = inFlight \cup {r}
             /\ pc' = "in_send"
             /\ UNCHANGED <<idx, delivered, missing, failedAt, error>>
        ELSE /\ missing' = Append(missing, r)
             /\ idx' = idx + 1
             /\ UNCHANGED <<pc, invoked, inFlight, delivered, failedAt, error>>
  /\ UNCHANGED <<roster, dirExists, fs, df, service, authCalls, created, run, passFs>>

\* lines 84-120: send_certificate runs to its return or to an exception
SendReturn ==
  /\ pc = "in_send"
  /\ LET r   == IterRow(df, idx)
         row == df[r]
     IN \E outcome \in {"ok", "SendFailed", "ArtifactUnreadable"} :
          /\ (~ Exists(fs, CertPath(row["Name"])) => outcome = "ArtifactUnreadable")
          /\ inFlight' = inFlight \ {r}
          /\ IF outcome = "ok"
             THEN /\ delivered' = Append(delivered,
                       [row |-> r,
                        msg |-> ComposeMessage(row["Email id"], row["Name"], fs)])
                  /\ idx' = idx + 1
                  /\ pc' = "send_loop"
                  /\ UNCHANGED <<failedAt, error>>
             ELSE /\ Abort(outcome)
                  /\ failedAt' = r
                  /\ UNCHANGED <<delivered, idx>>
  /\ UNCHANGED <<roster, dirExists, fs, df, service, authCalls, created,
                 invoked, missing, run, passFs>>

\* line 143: the loop is exhausted and the summary line is printed
SendEnd ==
  /\ pc = "send_loop"
  /\ idx > Len(df)
  /\ pc' = "done"
  /\ UNCHANGED <<roster, dirExists, fs, df, idx, service, authCalls, created,
                 sendLog, error, run, passFs>>

(* --------------------------- a new run -------------------------------- *)
\* the script is started again: roster and output folder are as left
Rerun ==
  /\ Terminated
  /\ run < MaxRuns
  /\ run' = run + 1
  /\ pc' = "start"
  /\ df' = <<>>
  /\ idx' = 1
  /\ service' = "none"
  /\ authCalls' = 0
  /\ created' = <<>>
  /\ invoked' = <<>>
  /\ inFlight' = {}
  /\ delivered' = <<>>
  /\ missing' = <<>>
  /\ error' = "none"
  /\ failedAt' = 0
  /\ UNCHANGED <<roster, dirExists, fs, passFs>>

Next ==
  \/ GenBegin
  \/ GenRow
  \/ GenEnd
  \/ Authenticate
  \/ EnvRemoveArtifact
  \/ SendBegin
  \/ SendRow
  \/ SendReturn
  \/ SendEnd
  \/ Rerun

Spec == Init /\ [][Next]_vars

TypeOK ==
  /\ pc \in {"start", "gen_loop", "auth", "send_begin", "send_loop", "in_send",
             "done", "aborted"}
  /\ idx \in 1..(MaxRows + 1)
  /\ run \in 1..MaxRuns
  /\ authCalls \in 0..1

(* ============================== claims ================================ *)
RowAt(r) == df[r]
PathOfRow(r) == CertPath(df[r]["Name"])
Attempted == {invoked[k] : k \in 1..Len(invoked)} \cup {missing[k] : k \in 1..Len(missing)}
StrictlyIncreasing(s) == \A j, k \in 1..Len(s) : j < k => s[j] < s[k]
IsParticipant(row) == {"Name", "Email id"} \subseteq DOMAIN row
CurRow == IterRow(df, idx)
AtRow == pc = "send_loop" /\ idx <= Len(df) /\ IsParticipant(df[CurRow])

\* C1: in the send loop send_certificate is invoked for a row only if the
\* artifact at the path derived from the row's name exists at that moment;
\* when it is absent no send is invoked, the skip is reported, and the loop
\* goes on to the next row.
C1_SendOnlyIfArtifactExists ==
  [][ /\ (invoked' # invoked /\ pc # "aborted" /\ pc # "done") =>
           /\ AtRow
           /\ invoked' = Append(invoked, CurRow)
           /\ Exists(fs, PathOfRow(CurRow))
      /\ (AtRow /\ ~ Exists(fs, PathOfRow(CurRow))) =>
           /\ invoked' = invoked
           /\ inFlight' = inFlight
           /\ missing' = Append(missing, CurRow)
           /\ idx' = idx + 1
           /\ pc' = "send_loop"
           /\ error' = error ]_vars

\* a row was skipped for its missing artifact and the next row was sent
C1_Witness == missing = <<1>> /\ invoked = <<2>> /\ Len(delivered) = 1

\* C2 (as claimed): when send_certificate fails at row i, every later row
\* is still attempted (sent or skipped) in the same run.
C2_FailureDoesNotHaltBatch ==
  (Terminated /\ failedAt # 0) =>
     \A j \in (failedAt + 1)..Len(df) : j \in Attempted

\* C3: authentication is performed at most once per run and exactly once
\* before any sending; the run becomes authenticated only by a successful
\* return of authenticate_gmail; a run whose authentication failed ends
\* without any send_certificate call.
C3_NoSendWithoutAuth ==
  /\ [](/\ authCalls <= 1
        /\ (service = "gmail" => authCalls = 1)
        /\ (pc \in {"send_begin", "send_loop", "in_send", "done"} =>
              service = "gmail" /\ authCalls = 1)
        /\ (invoked # <<>> \/ delivered # <<>> => service = "gmail")
        /\ (error = "AuthenticationFailed" =>
              pc = "aborted" /\ service = "none" /\ invoked = <<>> /\ delivered = <<>>))
  /\ [][service' # service /\ service' = "gmail" =>
          pc = "auth" /\ authCalls' = authCalls + 1 /\ pc' = "send_begin"]_vars

\* a run with rendered certificates ended by a failed authentication
C3_Witness ==
  error = "AuthenticationFailed" /\ pc = "aborted" /\ Len(created) = 2 /\ authCalls = 1

\* C4 (as claimed): after a successful render pass over a valid roster of
\* n rows the folder holds n artifacts written by that pass, one for each row.
C4_OneArtifactPerRow ==
  (csvCols = RequiredColumns /\ pc = "auth" /\ authCalls = 0) =>
     /\ Len(created) = Len(df)
     /\ Cardinality({PathOfRow(created[k]) : k \in 1..Len(created)}) = Len(df)
     /\ Cardinality(DOMAIN passFs[Len(passFs)]) = Len(df)

\* C5 (as claimed): every delivered email carries the image rendered from
\* the recipient's own row, whose drawn text is "<name> (<identifier>)".
C5_MatchingAttachment ==
  \A k \in 1..Len(delivered) :
     /\ delivered[k].msg.to = RowAt(delivered[k].row)["Email id"]
     /\ delivered[k].msg.attachment = <<NameText(RowAt(delivered[k].row))>>

\* C6: the send_certificate calls of a run follow the roster's file order,
\* each row is sent at most once, and a call starts only when no earlier
\* call is still running.
C6_SequentialInOrder ==
  /\ [](/\ StrictlyIncreasing(invoked)
        /\ Cardinality(inFlight) <= 1
        /\ \A k \in 1..Len(invoked) : invoked[k] \in 1..Len(df))
  /\ [][invoked' # invoked /\ invoked' # <<>> =>
          inFlight = {} /\ \E r \in 1..Len(df) : invoked' = Append(invoked, r)]_vars

\* two rows were sent one after the other
C6_Witness == invoked = <<1, 2>> /\ Len(delivered) = 2 /\ pc = "done"

\* C7 (as claimed): once authentication has succeeded, a run over a roster
\* of participant records ends in Done, and Done is reached only after every
\* roster row has been attempted.
C7_DoneAfterAuth ==
  /\ (csvCols = RequiredColumns /\ Terminated /\ service = "gmail") => pc = "done"
  /\ pc = "done" => \A j \in 1..Len(df) : j \in Attempted

\* C8 (as claimed): with a missing roster file or a roster lacking one of
\* the required columns, no artifact is written and no authentication or
\* send takes place.
C8_MalformedRosterAborts ==
  (csvState # "table" \/ csvCols # RequiredColumns) =>
     /\ created = <<>>
     /\ authCalls = 0
     /\ invoked = <<>>

C10_RenderIdempotent ==
  /\ \A k \in 1..(Len(passFs) - 1) : passFs[k + 1] = passFs[k]
  /\ error # "FileExistsError"

\* two passes over a non-empty roster were completed
C10_Witness == Len(passFs) = 2 /\ passFs[1] # NoFiles /\ run = 2
====
